---- MODULE Spec2Model ----
(***************************************************************************)
(* EventManager (event_manager.h, mutex-guarded revision with on/off/      *)
(* emitEvent).  A registry maps an event name to a vector of               *)
(* (identifier, callback) pairs.  Every operation takes functionsMapMutex  *)
(* through a std::lock_guard for the whole of its body.                    *)
(*                                                                         *)
(* Threads call the three operations concurrently.  A call is modelled in  *)
(* the steps that other threads can observe: entering the call (blocked on *)
(* the lock_guard), acquiring the mutex, the body, and for emitEvent each  *)
(* callback invocation with its return or its throw.                       *)
(***************************************************************************)
EXTENDS Integers, Sequences, FiniteSets, TLC

\* ---------------------------------------------------------------- bounds
MaxCalls == 5          \* total number of on/off/emitEvent calls issued
MaxId    == 2          \* largest identifier a caller passes to off()
MaxLiveCalls == 3      \* calls issued under the fair specification

Threads  == {"t1", "t2"}
Names    == {"a", "b"}       \* event names (std::string keys)
Funcs    == {"f", "g"}       \* callback values handed to on()
ArgVals  == {5, 7}           \* argument values handed to emitEvent()
Ids      == 0..MaxId

NoThread == "none"
NoCall   == [op |-> "none", name |-> "a", func |-> "f", id |-> 0, args |-> 5]

VARIABLES
    functionsMap,       \* std::map<string, shared_ptr<BaseFunctionVector>>
    functionsMapMutex,  \* owner of the std::mutex, or NoThread
    pc,                 \* position of each thread
    call,               \* operation and arguments of the thread's call
    ret,                \* outcome of the thread's last completed call
    retId,              \* identifier returned by the thread's last on()
    idx,                \* position of the range-for in emitEvent
    invoked,            \* callbacks invoked by the thread's emission, in order
    nextReg,            \* history: number of on() bodies executed so far
    nOn,                \* history: on() bodies executed per name
    nOffHit,            \* history: off() bodies per name whose id was present
    calls,              \* number of calls issued so far
    reentered           \* the thread's emission had a callback re-enter

vars == <<functionsMap, functionsMapMutex, pc, call, ret, retId, idx,
          invoked, nextReg, nOn, nOffHit, calls, reentered>>

\* ------------------------------------------------------- data structures
\* FunctionIdPair: (size_t id, std::function).  reg and name are history
\* fields: the registration stamp and the name the entry was registered under.
FunctionIdPair(id, func, reg, name) ==
    [id |-> id, func |-> func, reg |-> reg, name |-> name]

\* functionsMap.find(eventName) != functionsMap.end()
found(m, eventName) == eventName \in DOMAIN m

\* the vector a name maps to, empty when the name has no container
functionsOf(m, eventName) == IF found(m, eventName) THEN m[eventName] ELSE <<>>

\* identifiers stored in a vector
IdsOf(fs) == {fs[i].id : i \in 1..Len(fs)}

\* functions.emplace_back(id, func), mutated: insertion at the front
emplace_front(fs, e) == <<e>> \o fs

\* functions.emplace_back(id, func)
emplace_back(fs, e) == Append(fs, e)

\* the identifier on(), mutated: one counter shared by all event names
onId_global(m, eventName) ==
    LET RECURSIVE total(_)
        total(S) == IF S = {} THEN 0
                    ELSE LET n == CHOOSE x \in S : TRUE
                         IN Len(m[n]) + total(S \ {n})
    IN total(DOMAIN m)

\* the identifier on() picks: functions.size(), or 0 for a new container
onId(m, eventName) ==
    IF found(m, eventName) THEN Len(m[eventName]) ELSE 0

\* on(), mutated: a function that is already stored is not stored again
onMap_dedup(m, eventName, e) ==
    IF found(m, eventName)
    THEN IF \E i \in 1..Len(m[eventName]) : m[eventName][i].func = e.func
         THEN m
         ELSE [m EXCEPT ![eventName] = emplace_back(@, e)]
    ELSE m @@ (eventName :> emplace_back(<<>>, e))

\* the map after on(): append to the existing vector or insert a new one
onMap(m, eventName, e) ==
    IF found(m, eventName)
    THEN [m EXCEPT ![eventName] = emplace_back(@, e)]
    ELSE m @@ (eventName :> emplace_back(<<>>, e))

\* std::remove_if + erase: keep, in order, the pairs whose id differs
RECURSIVE remove_if(_, _)
remove_if(fs, id) ==
    IF fs = <<>> THEN <<>>
    ELSE IF Head(fs).id = id THEN remove_if(Tail(fs), id)
         ELSE <<Head(fs)>> \o remove_if(Tail(fs), id)

\* off(), mutated: the lookup creates the container (operator[] for find)
offMap_creating(m, eventName, id) ==
    IF found(m, eventName)
    THEN [m EXCEPT ![eventName] = remove_if(@, id)]
    ELSE m @@ (eventName :> <<>>)

\* off(), mutated: a vector that becomes empty is dropped from the map
offMap_erasing(m, eventName, id) ==
    IF found(m, eventName)
    THEN IF remove_if(m[eventName], id) = <<>>
         THEN [x \in DOMAIN m \ {eventName} |-> m[x]]
         ELSE [m EXCEPT ![eventName] = remove_if(@, id)]
    ELSE m

\* the map after off(): erase in the found vector, nothing otherwise
offMap(m, eventName, id) ==
    IF found(m, eventName)
    THEN [m EXCEPT ![eventName] = remove_if(@, id)]
    ELSE m

\* ------------------------------------------------------------- positions
InBody(t) == pc[t] \in {"on_body", "off_body", "emit_find", "emit_loop",
                        "in_callback", "self_blocked"}

\* std::lock_guard constructor, mutated: no mutual exclusion
lock_unguarded(t) == TRUE

\* std::lock_guard constructor, mutated: one lock per event name
lock_per_name(t) ==
    \A u \in Threads : InBody(u) => call[u].name # call[t].name

\* std::lock_guard<std::mutex> lock(functionsMapMutex) can be taken by t
lock_available(t) == functionsMapMutex = NoThread

TypeOK ==
    /\ DOMAIN functionsMap \subseteq Names
    /\ functionsMapMutex \in Threads \cup {NoThread}
    /\ pc \in [Threads -> {"idle", "wait", "on_body", "off_body", "emit_find",
                           "emit_loop", "in_callback", "self_blocked"}]
    /\ ret \in [Threads -> {"none", "ok", "raised"}]
    /\ retId \in [Threads -> Nat]
    /\ idx \in [Threads -> Nat]
    /\ calls \in 0..MaxCalls
    /\ reentered \in [Threads -> BOOLEAN]

Init ==
    /\ functionsMap = <<>>
    /\ functionsMapMutex = NoThread
    /\ pc = [t \in Threads |-> "idle"]
    /\ call = [t \in Threads |-> NoCall]
    /\ ret = [t \in Threads |-> "none"]
    /\ retId = [t \in Threads |-> 0]
    /\ idx = [t \in Threads |-> 0]
    /\ invoked = [t \in Threads |-> <<>>]
    /\ nextReg = 0
    /\ nOn = [n \in Names |-> 0]
    /\ nOffHit = [n \in Names |-> 0]
    /\ calls = 0
    /\ reentered = [t \in Threads |-> FALSE]

\* --------------------------------------------------------------- actions
\* A thread enters on(eventName, newFunc) and reaches the lock_guard.
CallOn(t) ==
    /\ pc[t] = "idle" /\ calls < MaxCalls
    /\ \E n \in Names, f \in Funcs :
         call' = [call EXCEPT ![t] = [NoCall EXCEPT !.op = "on", !.name = n,
                                                    !.func = f]]
    /\ pc' = [pc EXCEPT ![t] = "wait"]
    /\ ret' = [ret EXCEPT ![t] = "none"]
    /\ retId' = [retId EXCEPT ![t] = 0]
    /\ idx' = [idx EXCEPT ![t] = 0]
    /\ invoked' = [invoked EXCEPT ![t] = <<>>]
    /\ calls' = calls + 1
    /\ reentered' = [reentered EXCEPT ![t] = FALSE]
    /\ UNCHANGED <<functionsMap, functionsMapMutex, nextReg, nOn, nOffHit>>

\* A thread enters off(eventName, id) and reaches the lock_guard.
CallOff(t) ==
    /\ pc[t] = "idle" /\ calls < MaxCalls
    /\ \E n \in Names, i \in Ids :
         call' = [call EXCEPT ![t] = [NoCall EXCEPT !.op = "off", !.name = n,
                                                    !.id = i]]
    /\ pc' = [pc EXCEPT ![t] = "wait"]
    /\ ret' = [ret EXCEPT ![t] = "none"]
    /\ retId' = [retId EXCEPT ![t] = 0]
    /\ idx' = [idx EXCEPT ![t] = 0]
    /\ invoked' = [invoked EXCEPT ![t] = <<>>]
    /\ calls' = calls + 1
    /\ reentered' = [reentered EXCEPT ![t] = FALSE]
    /\ UNCHANGED <<functionsMap, functionsMapMutex, nextReg, nOn, nOffHit>>

\* A thread enters emitEvent(eventName, args...) and reaches the lock_guard.
CallEmit(t) ==
    /\ pc[t] = "idle" /\ calls < MaxCalls
    /\ \E n \in Names, a \in ArgVals :
         call' = [call EXCEPT ![t] = [NoCall EXCEPT !.op = "emit", !.name = n,
                                                    !.args = a]]
    /\ pc' = [pc EXCEPT ![t] = "wait"]
    /\ ret' = [ret EXCEPT ![t] = "none"]
    /\ retId' = [retId EXCEPT ![t] = 0]
    /\ idx' = [idx EXCEPT ![t] = 0]
    /\ invoked' = [invoked EXCEPT ![t] = <<>>]
    /\ calls' = calls + 1
    /\ reentered' = [reentered EXCEPT ![t] = FALSE]
    /\ UNCHANGED <<functionsMap, functionsMapMutex, nextReg, nOn, nOffHit>>

\* The lock_guard constructor returns: the thread owns functionsMapMutex.
Acquire(t) ==
    /\ pc[t] = "wait"
    /\ lock_available(t)
    /\ functionsMapMutex' = t
    /\ pc' = [pc EXCEPT ![t] = CASE call[t].op = "on"   -> "on_body"
                                 [] call[t].op = "off"  -> "off_body"
                                 [] OTHER               -> "emit_find"]
    /\ UNCHANGED <<functionsMap, call, ret, retId, idx, invoked, nextReg,
                   nOn, nOffHit, calls, reentered>>

\* Body of on(): pick the id, append the pair, release the lock, return id.
OnBody(t) ==
    /\ pc[t] = "on_body"
    /\ LET n  == call[t].name
           id == onId(functionsMap, n)
       IN /\ functionsMap' = onMap(functionsMap, n,
                                   FunctionIdPair(id, call[t].func, nextReg, n))
          /\ retId' = [retId EXCEPT ![t] = id]
          /\ nOn' = [nOn EXCEPT ![n] = @ + 1]
    /\ nextReg' = nextReg + 1
    /\ ret' = [ret EXCEPT ![t] = "ok"]
    /\ functionsMapMutex' = NoThread
    /\ pc' = [pc EXCEPT ![t] = "idle"]
    /\ UNCHANGED <<call, idx, invoked, nOffHit, calls, reentered>>

\* Body of off(): erase the pairs carrying id, release the lock, return.
OffBody(t) ==
    /\ pc[t] = "off_body"
    /\ LET n == call[t].name
       IN /\ functionsMap' = offMap(functionsMap, n, call[t].id)
          /\ nOffHit' = IF call[t].id \in IdsOf(functionsOf(functionsMap, n))
                        THEN [nOffHit EXCEPT ![n] = @ + 1]
                        ELSE nOffHit
    /\ ret' = [ret EXCEPT ![t] = "ok"]
    /\ functionsMapMutex' = NoThread
    /\ pc' = [pc EXCEPT ![t] = "idle"]
    /\ UNCHANGED <<call, retId, idx, invoked, nextReg, nOn, calls,
                   reentered>>

\* emitEvent(), mutated: the lookup throws for an unknown name (map::at)
EmitFind_at(t) ==
    /\ pc[t] = "emit_find"
    /\ IF found(functionsMap, call[t].name)
       THEN /\ pc' = [pc EXCEPT ![t] = "emit_loop"]
            /\ idx' = [idx EXCEPT ![t] = 1]
            /\ UNCHANGED <<functionsMapMutex, ret>>
       ELSE /\ pc' = [pc EXCEPT ![t] = "idle"]
            /\ ret' = [ret EXCEPT ![t] = "raised"]
            /\ functionsMapMutex' = NoThread
            /\ UNCHANGED idx
    /\ UNCHANGED <<functionsMap, call, retId, invoked, nextReg, nOn,
                   nOffHit, calls, reentered>>

\* emitEvent(), mutated: the lookup inserts an empty vector for an unknown
\* name (operator[] for find)
EmitFind_creating(t) ==
    /\ pc[t] = "emit_find"
    /\ IF found(functionsMap, call[t].name)
       THEN /\ pc' = [pc EXCEPT ![t] = "emit_loop"]
            /\ idx' = [idx EXCEPT ![t] = 1]
            /\ UNCHANGED <<functionsMapMutex, ret, functionsMap>>
       ELSE /\ pc' = [pc EXCEPT ![t] = "idle"]
            /\ ret' = [ret EXCEPT ![t] = "ok"]
            /\ functionsMapMutex' = NoThread
            /\ functionsMap' = functionsMap @@ (call[t].name :> <<>>)
            /\ UNCHANGED idx
    /\ UNCHANGED <<call, retId, invoked, nextReg, nOn, nOffHit, calls,
                   reentered>>

\* emitEvent(): the lookup.  An unknown name releases the lock and returns.
EmitFind(t) ==
    /\ pc[t] = "emit_find"
    /\ IF found(functionsMap, call[t].name)
       THEN /\ pc' = [pc EXCEPT ![t] = "emit_loop"]
            /\ idx' = [idx EXCEPT ![t] = 1]
            /\ UNCHANGED <<functionsMapMutex, ret>>
       ELSE /\ pc' = [pc EXCEPT ![t] = "idle"]
            /\ ret' = [ret EXCEPT ![t] = "ok"]
            /\ functionsMapMutex' = NoThread
            /\ UNCHANGED idx
    /\ UNCHANGED <<functionsMap, call, retId, invoked, nextReg, nOn,
                   nOffHit, calls, reentered>>

\* emitEvent(): the range-for calls the next stored function with args.
EmitInvoke(t) ==
    /\ pc[t] = "emit_loop"
    /\ idx[t] <= Len(functionsMap[call[t].name])
    /\ LET e == functionsMap[call[t].name][idx[t]]
       IN invoked' = [invoked EXCEPT ![t] =
                        Append(@, [reg |-> e.reg, func |-> e.func,
                                   name |-> e.name, args |-> call[t].args])]
    /\ pc' = [pc EXCEPT ![t] = "in_callback"]
    /\ UNCHANGED <<functionsMap, functionsMapMutex, call, ret, retId, idx,
                   nextReg, nOn, nOffHit, calls, reentered>>

\* The running callback returns: the range-for advances.
CallbackReturn(t) ==
    /\ pc[t] = "in_callback"
    /\ idx' = [idx EXCEPT ![t] = @ + 1]
    /\ pc' = [pc EXCEPT ![t] = "emit_loop"]
    /\ UNCHANGED <<functionsMap, functionsMapMutex, call, ret, retId,
                   invoked, nextReg, nOn, nOffHit, calls, reentered>>

\* The running callback throws, mutated: emitEvent catches the exception
\* and returns normally.
CallbackRaise_swallowed(t) ==
    /\ pc[t] = "in_callback"
    /\ ret' = [ret EXCEPT ![t] = "ok"]
    /\ functionsMapMutex' = NoThread
    /\ pc' = [pc EXCEPT ![t] = "idle"]
    /\ UNCHANGED <<functionsMap, call, retId, idx, invoked, nextReg, nOn,
                   nOffHit, calls, reentered>>

\* The running callback throws, mutated: the mutex is locked and unlocked
\* by hand, and the unlock is skipped by the exception.
CallbackRaise_leaking(t) ==
    /\ pc[t] = "in_callback"
    /\ ret' = [ret EXCEPT ![t] = "raised"]
    /\ pc' = [pc EXCEPT ![t] = "idle"]
    /\ UNCHANGED <<functionsMap, functionsMapMutex, call, retId, idx, invoked,
                   nextReg, nOn, nOffHit, calls, reentered>>

\* The running callback throws: nothing catches it, the lock_guard is
\* destroyed during unwinding and the exception reaches the caller.
CallbackRaise(t) ==
    /\ pc[t] = "in_callback"
    /\ ret' = [ret EXCEPT ![t] = "raised"]
    /\ functionsMapMutex' = NoThread
    /\ pc' = [pc EXCEPT ![t] = "idle"]
    /\ UNCHANGED <<functionsMap, call, retId, idx, invoked, nextReg, nOn,
                   nOffHit, calls, reentered>>

\* emitEvent(): the range-for is exhausted; release the lock and return.
EmitExit(t) ==
    /\ pc[t] = "emit_loop"
    /\ idx[t] > Len(functionsMap[call[t].name])
    /\ ret' = [ret EXCEPT ![t] = "ok"]
    /\ functionsMapMutex' = NoThread
    /\ pc' = [pc EXCEPT ![t] = "idle"]
    /\ UNCHANGED <<functionsMap, call, retId, idx, invoked, nextReg, nOn,
                   nOffHit, calls, reentered>>

\* Re-entry, mutated: the mutex is recursive, the inner call is an on() that
\* takes the lock again and stores its function.
ReenterBlock_recursive(t) ==
    /\ pc[t] = "in_callback"
    /\ reentered' = [reentered EXCEPT ![t] = TRUE]
    /\ LET n == call[t].name
       IN functionsMap' = onMap(functionsMap, n,
                                FunctionIdPair(onId(functionsMap, n), "f",
                                               nextReg, n))
    /\ nextReg' = nextReg + 1
    /\ UNCHANGED <<functionsMapMutex, pc, call, ret, retId, idx, invoked,
                   nOn, nOffHit, calls>>

\* The running callback calls on(), off() or emitEvent() of the same
\* registry: the lock_guard of the inner call locks a std::mutex its own
\* thread owns, which is undefined.  Outcome one: lock() never returns.
ReenterBlock(t) ==
    /\ pc[t] = "in_callback"
    /\ pc' = [pc EXCEPT ![t] = "self_blocked"]
    /\ reentered' = [reentered EXCEPT ![t] = TRUE]
    /\ UNCHANGED <<functionsMap, functionsMapMutex, call, ret, retId, idx,
                   invoked, nextReg, nOn, nOffHit, calls>>

\* Outcome two: lock() detects the deadlock and throws std::system_error
\* (resource_deadlock_would_occur) inside the callback, which then either
\* handles it and returns or lets it escape.
ReenterThrow(t) ==
    /\ pc[t] = "in_callback"
    /\ ~reentered[t]
    /\ reentered' = [reentered EXCEPT ![t] = TRUE]
    /\ UNCHANGED <<functionsMap, functionsMapMutex, pc, call, ret, retId, idx,
                   invoked, nextReg, nOn, nOffHit, calls>>

Next ==
    \E t \in Threads :
        \/ CallOn(t)
        \/ CallOff(t)
        \/ CallEmit(t)
        \/ Acquire(t)
        \/ OnBody(t)
        \/ OffBody(t)
        \/ EmitFind(t)
        \/ EmitInvoke(t)
        \/ CallbackReturn(t)
        \/ CallbackRaise(t)
        \/ EmitExit(t)
        \/ ReenterBlock(t)
        \/ ReenterThrow(t)

Spec == Init /\ [][Next]_vars

\* The same steps with at most MaxLiveCalls calls issued.
NextLive ==
    \E t \in Threads :
        \/ (calls < MaxLiveCalls /\ CallOn(t))
        \/ (calls < MaxLiveCalls /\ CallOff(t))
        \/ (calls < MaxLiveCalls /\ CallEmit(t))
        \/ Acquire(t)
        \/ OnBody(t)
        \/ OffBody(t)
        \/ EmitFind(t)
        \/ EmitInvoke(t)
        \/ CallbackReturn(t)
        \/ CallbackRaise(t)
        \/ EmitExit(t)
        \/ ReenterBlock(t)
        \/ ReenterThrow(t)

\* A thread that owns the mutex keeps running (the scheduler is fair to it),
\* and a callback that is running and not blocked ends, by return or throw.
Fairness ==
    \A t \in Threads :
        /\ WF_vars(EmitFind(t))
        /\ WF_vars(EmitInvoke(t))
        /\ WF_vars(EmitExit(t))
        /\ WF_vars(CallbackReturn(t) \/ CallbackRaise(t))

FairSpec == Init /\ [][NextLive]_vars /\ Fairness

\* ------------------------------------------------------------ properties
\* registration stamps of a sequence of entries or invocation records
Regs(s) == [i \in 1..Len(s) |-> s[i].reg]

\* the vector stored under the name of t's call
Stored(t) == functionsOf(functionsMap, call[t].name)

\* t's call returns (normally or by exception) in this step
Leaves(t) == InBody(t) /\ pc'[t] = "idle"

\* fs without the entry at position i
RemoveAt(fs, i) == SubSeq(fs, 1, i - 1) \o SubSeq(fs, i + 1, Len(fs))

\* C1: an emitEvent() that returns has invoked every entry stored under the
\* name exactly once, in ascending registration order, and it returns from
\* the loop, after the last callback has returned.
C1_EmitInRegistrationOrder ==
    [][\A t \in Threads :
         (call[t].op = "emit" /\ Leaves(t) /\ ret'[t] = "ok") =>
            /\ pc[t] # "in_callback"
            /\ Regs(invoked'[t]) = Regs(Stored(t))
            /\ \A i, j \in 1..Len(invoked'[t]) :
                 i < j => invoked'[t][i].reg < invoked'[t][j].reg]_vars

\* C1 witness: after registrations and a removal, an emission has returned
\* having invoked at least two callbacks.
C1_Witness ==
    \E t \in Threads :
        /\ pc[t] = "idle" /\ call[t].op = "emit" /\ ret[t] = "ok"
        /\ Len(invoked[t]) >= 2
        /\ nOffHit[call[t].name] > 0

\* C2: off(name, id) with id present removes exactly one entry and leaves
\* every other entry of the name in place, in the same order.
C2_OffRemovesExactlyOne ==
    [][\A t \in Threads :
         (pc[t] = "off_body" /\ Leaves(t)
            /\ call[t].id \in IdsOf(Stored(t))) =>
            \E i \in 1..Len(Stored(t)) :
               /\ Stored(t)[i].id = call[t].id
               /\ functionsMap'[call[t].name] = RemoveAt(Stored(t), i)]_vars

\* C3: no two entries stored under one event name carry the same identifier.
C3_IdsUniquePerName ==
    \A n \in DOMAIN functionsMap :
        \A i, j \in 1..Len(functionsMap[n]) :
            i # j => functionsMap[n][i].id # functionsMap[n][j].id

\* C4: at most one thread is between acquiring and releasing
\* functionsMapMutex, and that thread is the owner of the mutex.
C4_MutualExclusion ==
    /\ Cardinality({t \in Threads : InBody(t)}) <= 1
    /\ \A t \in Threads : InBody(t) => functionsMapMutex = t

\* C4 witness: one thread is inside a body while another thread, calling
\* with a different event name, is blocked on the lock.
C4_Witness ==
    \E t, u \in Threads :
        /\ InBody(t) /\ pc[u] = "wait"
        /\ call[t].name # call[u].name

\* C5: once all calls have completed, each name stores as many callbacks as
\* on() calls for it minus off() calls that targeted a present identifier.
C5_CountIsNetRegistrations ==
    (\A t \in Threads : pc[t] = "idle") =>
        \A n \in Names :
            Len(functionsOf(functionsMap, n)) = nOn[n] - nOffHit[n]

\* C6: when a callback raises, the emission ends at once with the failure
\* delivered to the caller; exactly the entries up to and including the
\* raising one have been invoked, once each, and none stored after it.
C6_RaiseAbortsEmission ==
    [][\A t \in Threads :
         /\ (pc[t] = "in_callback" /\ pc'[t] = "idle") =>
               /\ ret'[t] = "raised"
               /\ Regs(invoked'[t]) = Regs(SubSeq(Stored(t), 1, idx[t]))
         /\ (ret[t] = "raised" /\ ret'[t] = "raised") =>
               invoked'[t] = invoked[t]]_vars

\* C6 witness: an emission was aborted by its second callback while a
\* third one was stored after it.
C6_Witness ==
    \E t \in Threads :
        /\ pc[t] = "idle" /\ call[t].op = "emit" /\ ret[t] = "raised"
        /\ Len(invoked[t]) = 2
        /\ Len(Stored(t)) = 3

\* C7: off() with an unknown name or an identifier that is not stored
\* returns normally and leaves the whole map unchanged; repeating any off()
\* changes nothing more.
C7_OffAbsentIsNoOp ==
    [][\A t \in Threads :
         (pc[t] = "off_body" /\ Leaves(t)) =>
            /\ ret'[t] = "ok"
            /\ call[t].id \notin IdsOf(Stored(t)) =>
                  functionsMap' = functionsMap
            /\ offMap(functionsMap', call[t].name, call[t].id)
                  = functionsMap']_vars

\* C7 witness: an off() on a name without a container has returned and the
\* name still has no container.
C7_Witness ==
    \E t \in Threads :
        /\ pc[t] = "idle" /\ call[t].op = "off" /\ ret[t] = "ok"
        /\ ~found(functionsMap, call[t].name)
        /\ DOMAIN functionsMap # {}

\* C8: emitEvent() on a name with no stored callback (no container, or an
\* emptied one) invokes nothing and returns normally.
C8_EmitEmptyIsNoOp ==
    [][\A t \in Threads :
         (call[t].op = "emit" /\ InBody(t) /\ Stored(t) = <<>>) =>
            /\ invoked'[t] = <<>>
            /\ pc'[t] \in {"emit_find", "emit_loop", "idle"}
            /\ pc'[t] = "idle" => ret'[t] = "ok"]_vars

\* C8 witness: an emission on a name whose callbacks were all removed by
\* off() has returned.
C8_Witness ==
    \E t \in Threads :
        /\ pc[t] = "idle" /\ call[t].op = "emit" /\ ret[t] = "ok"
        /\ found(functionsMap, call[t].name) /\ Stored(t) = <<>>
        /\ invoked[t] = <<>>

\* C9: an emission invokes only entries registered under its own name and
\* hands each the emitted arguments; on() and off() leave every other name
\* as it was; the identifier on() returns depends on its own name only.
C9_NamesIndependent ==
    /\ [](\A t \in Threads : \A i \in 1..Len(invoked[t]) :
            /\ invoked[t][i].name = call[t].name
            /\ invoked[t][i].args = call[t].args)
    /\ [][\A t \in Threads :
            (pc[t] \in {"on_body", "off_body"} /\ Leaves(t)) =>
               /\ \A b \in Names \ {call[t].name} :
                     /\ found(functionsMap', b) = found(functionsMap, b)
                     /\ functionsOf(functionsMap', b)
                           = functionsOf(functionsMap, b)
               /\ pc[t] = "on_body" => retId'[t] = Len(Stored(t))]_vars

\* C9 witness: with callbacks stored under both names, an emission on one
\* of them has invoked that name's callbacks.
C9_Witness ==
    \E t \in Threads :
        /\ pc[t] = "idle" /\ call[t].op = "emit" /\ ret[t] = "ok"
        /\ Len(invoked[t]) >= 1
        /\ \A n \in Names : Len(functionsOf(functionsMap, n)) >= 1

\* C10: while a callback runs on one thread, every other thread is outside
\* the bodies, can at most arrive at the lock, and the map does not change;
\* a thread acquires the lock only when no other thread is inside a body.
C10_CallbackBlocksRegistry ==
    [][/\ \A t \in Threads : pc[t] = "in_callback" =>
             /\ \A u \in Threads \ {t} :
                   /\ ~InBody(u)
                   /\ pc'[u] \in {pc[u], "wait"}
                   /\ pc[u] = "wait" => pc'[u] = "wait"
             /\ functionsMap' = functionsMap
       /\ \A u \in Threads : (pc[u] = "wait" /\ pc'[u] # "wait") =>
             \A t \in Threads \ {u} : ~InBody(t)]_vars

\* C10 witness: a callback is running for one name while a call on the
\* other name is blocked on the lock.
C10_Witness ==
    \E t, u \in Threads :
        /\ pc[t] = "in_callback" /\ pc[u] = "wait"
        /\ call[t].name # call[u].name

C12_ContainersPersist ==
    [][/\ DOMAIN functionsMap \subseteq DOMAIN functionsMap'
       /\ \A n \in DOMAIN functionsMap' \ DOMAIN functionsMap :
             \E t \in Threads :
                pc[t] = "on_body" /\ Leaves(t) /\ call[t].name = n
       /\ \A t \in Threads :
             /\ (call[t].op \in {"off", "emit"} /\ InBody(t)) =>
                   DOMAIN functionsMap' = DOMAIN functionsMap
             /\ (pc[t] = "on_body" /\ Leaves(t)
                   /\ found(functionsMap, call[t].name)
                   /\ Stored(t) = <<>>) =>
                   retId'[t] = 0]_vars

\* C12 witness: after the callbacks of a name were all removed, an on() for
\* that name has returned identifier 0 into the existing container.
C12_Witness ==
    \E t \in Threads :
        /\ pc[t] = "idle" /\ call[t].op = "on" /\ retId[t] = 0
        /\ nOn[call[t].name] >= 2 /\ nOffHit[call[t].name] >= 1
        /\ Len(Stored(t)) = 1
        /\ Stored(t)[1].reg = nextReg - 1

\* C17: the entry at zero-based position i of a name's vector has an
\* identifier greater than or equal to i.
C17_IdAtLeastPosition ==
    \A n \in DOMAIN functionsMap :
        \A k \in 1..Len(functionsMap[n]) : functionsMap[n][k].id >= k - 1

\* C17 witness: after a removal, a vector of two entries holds an entry
\* whose identifier exceeds its position.
C17_Witness ==
    \E n \in DOMAIN functionsMap :
        /\ Len(functionsMap[n]) >= 2
        /\ \E k \in 1..Len(functionsMap[n]) : functionsMap[n][k].id > k - 1

\* t is inside the body of an emitEvent() call
Emitting(t) == call[t].op = "emit" /\ InBody(t)

\* C13: from the moment an emission holds the lock until it leaves, the
\* vector of its name does not change, no other thread is inside on() or
\* off(), and the callbacks invoked so far are the leading stored entries;
\* an emission that returns has invoked all of them.
C13_EmissionAtomic ==
    [][\A t \in Threads :
         Emitting(t) =>
            /\ functionsOf(functionsMap', call[t].name) = Stored(t)
            /\ \A u \in Threads \ {t} :
                  /\ pc[u] \notin {"on_body", "off_body"}
                  /\ pc'[u] \notin {"on_body", "off_body"}
            /\ Len(invoked'[t]) <= Len(Stored(t))
            /\ Regs(invoked'[t])
                  = Regs(SubSeq(Stored(t), 1, Len(invoked'[t])))
            /\ (Leaves(t) /\ ret'[t] = "ok") =>
                  Len(invoked'[t]) = Len(Stored(t))]_vars

\* C13 witness: an emission has invoked a callback while an on() or off()
\* of another thread for the same name waits for the lock.
C13_Witness ==
    \E t, u \in Threads :
        /\ Emitting(t) /\ Len(invoked[t]) >= 1
        /\ pc[u] = "wait" /\ call[u].op \in {"on", "off"}
        /\ call[u].name = call[t].name

\* C15: a raising callback leaves the mutex free and the map as it was;
\* the mutex is free whenever no thread is inside a body, so later calls
\* can acquire it; every emission starts at the first stored entry.
C15_RaiseLeavesRegistryUsable ==
    /\ [][\A t \in Threads :
            /\ (pc[t] = "in_callback" /\ pc'[t] = "idle") =>
                  /\ functionsMapMutex' = NoThread
                  /\ functionsMap' = functionsMap
            /\ (pc[t] = "emit_loop" /\ pc'[t] = "in_callback"
                  /\ invoked[t] = <<>>) =>
                  invoked'[t][1].reg = Stored(t)[1].reg]_vars
    /\ []((\A t \in Threads : ~InBody(t)) => functionsMapMutex = NoThread)

\* C15 witness: after an emission of one thread was aborted by a raising
\* callback, another thread is inside a later emission on the same name
\* and has invoked the first stored callback again.
C15_Witness ==
    \E t, u \in Threads :
        /\ pc[t] = "idle" /\ call[t].op = "emit" /\ ret[t] = "raised"
        /\ u # t /\ Emitting(u) /\ call[u].name = call[t].name
        /\ Len(invoked[u]) >= 1
        /\ invoked[u][1].reg = invoked[t][1].reg

\* C16: no step taken while an emission is inside its body changes the map
\* (names and entry sequences), and an emission that returns has invoked
\* exactly what the map holds for its name afterwards, which is what the
\* next emission of that name will invoke.
C16_EmitLeavesMapUnchanged ==
    [][\A t \in Threads :
         Emitting(t) =>
            /\ functionsMap' = functionsMap
            /\ (Leaves(t) /\ ret'[t] = "ok") =>
                  Regs(invoked'[t])
                     = Regs(functionsOf(functionsMap', call[t].name))]_vars

\* C16 witness: two emissions on the same name have returned, both having
\* invoked the same two or more callbacks in the same order, and the name
\* still stores exactly those callbacks.
C16_Witness ==
    \E t, u \in Threads :
        /\ t # u
        /\ pc[t] = "idle" /\ call[t].op = "emit" /\ ret[t] = "ok"
        /\ pc[u] = "idle" /\ call[u].op = "emit" /\ ret[u] = "ok"
        /\ call[t].name = call[u].name
        /\ Len(invoked[t]) >= 2
        /\ Regs(invoked[t]) = Regs(invoked[u])
        /\ Regs(invoked[t]) = Regs(Stored(t))

====
